---- MODULE Spec2Model ----
(***************************************************************************)
(* Model of the beam analyzer: the useBeamAnalysis hook, the mesh builder  *)
(* and load resolver of BeamAnalysisService, FemSolver and                 *)
(* DiagramCalculator.                                                      *)
(*                                                                         *)
(* Numbers.  The program computes in IEEE doubles; the model computes in   *)
(* exact rationals <<n, d>> (d > 0, lowest terms), so rounding is not      *)
(* modelled.                                                               *)
(*                                                                         *)
(* Units.  Positions and lengths are integers in micrometres, so the       *)
(* tolerances of the code are 1e-6 m = 1, 1e-4 m = 100, 1e-3 m = 1000.     *)
(* Forces are in N, moments (point moments, reaction moments, bending      *)
(* moment samples) in N*um, distributed intensities in N/um.  E and I are  *)
(* measured in units of the hook's defaults (200e9 Pa, 1e-4 m^4).          *)
(* FemSolver's linear algebra is carried out with lengths measured in the  *)
(* mesh unit g = gcd of the element lengths (MeshUnit): the stiffness      *)
(* entries are those of beam2D with L in units of g, moments in the force  *)
(* vector are in N*g, and the displacements a result carries are in units  *)
(* of g^3/(E0*I0) (y) and g^2/(E0*I0) (rotation).  Reactions are exported  *)
(* in N and N*um.                                                          *)
(***************************************************************************)
EXTENDS Integers, Sequences, FiniteSets, TLC

\* a null string
Null == "null"
\* an absent record: a null result, a call not made
None == [none |-> TRUE]

(***************************************************************************)
(* Exact rational arithmetic.                                              *)
(***************************************************************************)
Abs(i) == IF i < 0 THEN -i ELSE i

RECURSIVE GCD(_, _)
GCD(a, b) == IF b = 0 THEN a ELSE GCD(b, a % b)

Rat(n, d) ==
    LET g == GCD(Abs(n), Abs(d))
        s == IF d < 0 THEN -1 ELSE 1
    IN  <<s * (n \div g), s * (d \div g)>>

RZero == <<0, 1>>
RInt(i) == <<i, 1>>
RNeg(a) == <<-a[1], a[2]>>
RAbs(a) == <<Abs(a[1]), a[2]>>

RAdd(a, b) ==
    IF a[1] = 0 THEN b
    ELSE IF b[1] = 0 THEN a
    ELSE LET g == GCD(a[2], b[2])
         IN  Rat(a[1] * (b[2] \div g) + b[1] * (a[2] \div g), (a[2] \div g) * b[2])

RSub(a, b) == RAdd(a, RNeg(b))

RMul(a, b) ==
    IF a[1] = 0 \/ b[1] = 0 THEN RZero
    ELSE LET g1 == GCD(Abs(a[1]), b[2])
             g2 == GCD(Abs(b[1]), a[2])
         IN  <<(a[1] \div g1) * (b[1] \div g2), (a[2] \div g2) * (b[2] \div g1)>>

RInv(a) == IF a[1] < 0 THEN <<-a[2], -a[1]>> ELSE <<a[2], a[1]>>
RDiv(a, b) == RMul(a, RInv(b))

\* a < b, by cross multiplication on the reduced denominators
RLess(a, b) ==
    LET g == GCD(a[2], b[2])
    IN  a[1] * (b[2] \div g) < b[1] * (a[2] \div g)

RECURSIVE RSumSeq(_, _)
RSumSeq(s, k) == IF k = 0 THEN RZero ELSE RAdd(RSumSeq(s, k - 1), s[k])

Min(S) == CHOOSE m \in S : \A o \in S : m <= o

\* a function over 1..n as a fully evaluated sequence
AsSeq(f) == f \o <<>>

RECURSIVE SortAsc(_)
SortAsc(S) == IF S = {} THEN <<>> ELSE LET m == Min(S) IN <<m>> \o SortAsc(S \ {m})

(***************************************************************************)
(* Tolerances of the code, in micrometres.                                 *)
(***************************************************************************)
EpsGeom == 1
EpsMerge == 100
EpsNode == 1000

(***************************************************************************)
(* Entities: Node, Element, StiffnessMatrix.                               *)
(***************************************************************************)
Node(id, x, support) == [id |-> id, x |-> x, support |-> support]

isRestrainedY(node) == node.support # "Free"
isRestrainedRotation(node) == node.support = "Fixed"

\* start and end are the nodes themselves, as the element keeps references
Element(id, startNode, endNode, E, I) ==
    [id |-> id, startNode |-> startNode, endNode |-> endNode, E |-> E, I |-> I]

ElementLength(el) == Abs(el.endNode.x - el.startNode.x)

\* new Element(...) throws when its length is <= 1e-6
ElementCtorThrows(el) == ElementLength(el) <= EpsGeom

\* beam2D throws on L <= 0 and on E <= 0 or I <= 0
Beam2DThrows(E, I, L) == L[1] <= 0 \/ E <= 0 \/ I <= 0

beam2D(E, I, L) ==
    LET EI == RInt(E * I)
        L2 == RMul(L, L)
        L3 == RMul(L2, L)
        k_trans == RDiv(RMul(RInt(12), EI), L3)
        k_rot == RDiv(RMul(RInt(4), EI), L)
        k_cross == RDiv(RMul(RInt(6), EI), L2)
        k_rot_far == RDiv(RMul(RInt(2), EI), L)
    IN  << <<k_trans, k_cross, RNeg(k_trans), k_cross>>,
           <<k_cross, k_rot, RNeg(k_cross), k_rot_far>>,
           <<RNeg(k_trans), RNeg(k_cross), k_trans, RNeg(k_cross)>>,
           <<k_cross, k_rot_far, RNeg(k_cross), k_rot>> >>

(***************************************************************************)
(* BeamAnalysisService: generateMesh and processLoads.                     *)
(* A BeamInput is [length, E, I, supports, loads]; a load input carries    *)
(* x, or startX and endX, only when the caller gave it.                    *)
(***************************************************************************)
HasX(l) == "x" \in DOMAIN l
HasSpan(l) == "startX" \in DOMAIN l /\ "endX" \in DOMAIN l

\* raw.category || 'Dead'
CategoryOf(l) == IF "category" \in DOMAIN l THEN l.category ELSE "Dead"

MeshPoints(input) ==
    {0, input.length}
    \cup {input.supports[k].x : k \in 1..Len(input.supports)}
    \cup {input.loads[k].x : k \in {j \in 1..Len(input.loads) : HasX(input.loads[j])}}
    \cup {input.loads[k].startX :
            k \in {j \in 1..Len(input.loads) : "startX" \in DOMAIN input.loads[j]}}
    \cup {input.loads[k].endX :
            k \in {j \in 1..Len(input.loads) : "endX" \in DOMAIN input.loads[j]}}

\* supports.find(s => |s.x - x| < 1e-4): the first match in list order
SupportTypeAt(supports, x) ==
    LET hits == {k \in 1..Len(supports) : Abs(supports[k].x - x) < EpsMerge}
    IN  IF hits = {} THEN "Free" ELSE supports[Min(hits)].type

MeshNodes(input) ==
    LET sortedX == SortAsc({x \in MeshPoints(input) : x >= 0 /\ x <= input.length})
    IN  AsSeq([i \in 1..Len(sortedX) |->
            Node(i - 1, sortedX[i], SupportTypeAt(input.supports, sortedX[i]))])

RECURSIVE MeshElements(_, _, _)
MeshElements(nodes, input, i) ==
    IF i >= Len(nodes) THEN <<>>
    ELSE IF Abs(nodes[i + 1].x - nodes[i].x) > EpsGeom
         THEN <<Element(i - 1, nodes[i], nodes[i + 1], input.E, input.I)>>
                  \o MeshElements(nodes, input, i + 1)
         ELSE MeshElements(nodes, input, i + 1)

generateMesh(input) ==
    LET nodes == MeshNodes(input)
    IN  [nodes |-> nodes, elements |-> MeshElements(nodes, input, 1)]

\* Load.ts: the three load classes
PointForceLoad(id, magnitude, x, category) ==
    [id |-> id, x |-> x, category |-> category, type |-> "PointForce",
     magnitude |-> magnitude]
PointMomentLoad(id, magnitude, x, category) ==
    [id |-> id, x |-> x, category |-> category, type |-> "PointMoment",
     magnitude |-> magnitude]
DistributedForceLoad(id, magnitude, startX, endX, category) ==
    [id |-> id, category |-> category, startX |-> startX,
     endX |-> endX, type |-> "DistributedForce", magnitude |-> magnitude]

\* the domain loads one input load expands to; the piece of a distributed
\* load on element index k-1 has the id <<raw.id, k-1>> for `${raw.id}_el${index}`
ProcessLoad(raw, elements) ==
    LET category == CategoryOf(raw)
    IN  IF raw.type = "PointForce" /\ HasX(raw)
        THEN <<PointForceLoad(raw.id, raw.magnitude, raw.x, category)>>
        ELSE IF raw.type = "PointMoment" /\ HasX(raw)
        THEN <<PointMomentLoad(raw.id, raw.magnitude, raw.x, category)>>
        ELSE IF raw.type = "DistributedForce" /\ HasSpan(raw)
        THEN LET overlaps(k) ==
                     /\ elements[k].startNode.x >= raw.startX - EpsMerge
                     /\ elements[k].endNode.x <= raw.endX + EpsMerge
                 RECURSIVE pieces(_)
                 pieces(k) ==
                     IF k > Len(elements) THEN <<>>
                     ELSE IF overlaps(k)
                          THEN <<DistributedForceLoad(<<raw.id, k - 1>>, raw.magnitude,
                                     elements[k].startNode.x, elements[k].endNode.x,
                                     category)>> \o pieces(k + 1)
                          ELSE pieces(k + 1)
             IN  pieces(1)
        ELSE <<>>

RECURSIVE processLoads(_, _, _)
processLoads(inputs, elements, k) ==
    IF k > Len(inputs) THEN <<>>
    ELSE ProcessLoad(inputs[k], elements) \o processLoads(inputs, elements, k + 1)

(***************************************************************************)
(* FemSolver.solve.  Vectors and matrices are sequences; DOF 2i of the     *)
(* code (vertical of node i) is entry 2i+1 here, DOF 2i+1 (rotation) is    *)
(* entry 2i+2.                                                             *)
(***************************************************************************)
RECURSIVE GcdOfLengths(_, _)
GcdOfLengths(elements, k) ==
    IF k = 0 THEN 0 ELSE GCD(ElementLength(elements[k]), GcdOfLengths(elements, k - 1))

\* the length unit of the linear algebra (see the header)
MeshUnit(elements) ==
    LET g == GcdOfLengths(elements, Len(elements)) IN IF g = 0 THEN 1 ELSE g

\* nodeIndexMap.get(id), as a position in the node sequence
NodeIndex(nodes, id) == CHOOSE i \in 1..Len(nodes) : nodes[i].id = id

VDof(i) == 2 * i - 1
RDof(i) == 2 * i

ZeroVector(n) == [i \in 1..n |-> RZero]
ZeroMatrix(n) == [i \in 1..n |-> ZeroVector(n)]

\* el.stiffnessMatrix throws for some element
StiffnessThrows(elements, g) ==
    \E k \in 1..Len(elements) :
        Beam2DThrows(elements[k].E, elements[k].I, Rat(ElementLength(elements[k]), g))

StiffnessError(elements, g) ==
    LET k == Min({j \in 1..Len(elements) :
                Beam2DThrows(elements[j].E, elements[j].I,
                             Rat(ElementLength(elements[j]), g))})
    IN  IF ElementLength(elements[k]) <= 0
        THEN "Length must be positive to compute stiffness."
        ELSE "Material properties (E, I) must be positive."

AddStiffness(K, el, nodes, g) ==
    LET idxStart == NodeIndex(nodes, el.startNode.id)
        idxEnd == NodeIndex(nodes, el.endNode.id)
        dofIndices == <<VDof(idxStart), RDof(idxStart), VDof(idxEnd), RDof(idxEnd)>>
        kLocal == beam2D(el.E, el.I, Rat(ElementLength(el), g))
        local(d) == CHOOSE i \in 1..4 : dofIndices[i] = d
        touched == {dofIndices[i] : i \in 1..4}
    IN  AsSeq([row \in 1..Len(K) |->
            IF row \notin touched THEN K[row]
            ELSE AsSeq([col \in 1..Len(K) |->
                    IF col \notin touched THEN K[row][col]
                    ELSE RAdd(K[row][col], kLocal[local(row)][local(col)])])])

RECURSIVE AssembleK(_, _, _, _)
AssembleK(nodes, elements, g, k) ==
    IF k = 0 THEN ZeroMatrix(2 * Len(nodes))
    ELSE AddStiffness(AssembleK(nodes, elements, g, k - 1), elements[k], nodes, g)

\* nodes.find(n => |n.x - x| < 1e-3): the first match in node order, 0 if none
FindNode(nodes, x) ==
    LET hits == {i \in 1..Len(nodes) : Abs(nodes[i].x - x) < EpsNode}
    IN  IF hits = {} THEN 0 ELSE Min(hits)

AddTo(F, dof, value) == [F EXCEPT ![dof] = RAdd(@, value)]

\* the effect of one domain load on F
ApplyLoad(F, load, nodes, g) ==
    IF load.type = "PointForce" \/ load.type = "PointMoment"
    THEN LET idx == FindNode(nodes, load.x)
         IN  IF idx = 0 THEN F
             ELSE IF load.type = "PointForce"
                  THEN AddTo(F, VDof(idx), load.magnitude)
                  ELSE AddTo(F, RDof(idx), RDiv(load.magnitude, RInt(g)))
    ELSE IF load.type = "DistributedForce"
    THEN LET w == RMul(load.magnitude, RInt(g))
             L == Rat(load.endX - load.startX, g)
             idxStart == FindNode(nodes, load.startX)
             idxEnd == FindNode(nodes, load.endX)
             V_start == RDiv(RMul(w, L), RInt(2))
             V_end == RDiv(RMul(w, L), RInt(2))
             M_start == RDiv(RMul(RMul(w, L), L), RInt(12))
             M_end == RNeg(RDiv(RMul(RMul(w, L), L), RInt(12)))
         IN  IF load.endX - load.startX <= EpsGeom THEN F
             ELSE IF idxStart = 0 \/ idxEnd = 0 THEN F
             ELSE AddTo(AddTo(AddTo(AddTo(F, VDof(idxStart), V_start),
                                    RDof(idxStart), M_start),
                              VDof(idxEnd), V_end),
                        RDof(idxEnd), M_end)
    ELSE F

\* a load vector that is not cleared before the loads are applied: every
\* vertical degree of freedom starts with one unit downwards
RECURSIVE AssembleFNotCleared(_, _, _, _)
AssembleFNotCleared(nodes, loads, g, k) ==
    IF k = 0
    THEN AsSeq([d \in 1..(2 * Len(nodes)) |-> IF d % 2 = 1 THEN RInt(-1) ELSE RZero])
    ELSE ApplyLoad(AssembleFNotCleared(nodes, loads, g, k - 1), loads[k], nodes, g)

RECURSIVE AssembleF(_, _, _, _)
AssembleF(nodes, loads, g, k) ==
    IF k = 0 THEN ZeroVector(2 * Len(nodes))
    ELSE ApplyLoad(AssembleF(nodes, loads, g, k - 1), loads[k], nodes, g)

IsFreeDof(nodes, d) ==
    LET i == (d + 1) \div 2
    IN  IF d % 2 = 1 THEN ~isRestrainedY(nodes[i]) ELSE ~isRestrainedRotation(nodes[i])

freeDofs(nodes) == SortAsc({d \in 1..(2 * Len(nodes)) : IsFreeDof(nodes, d)})

\* subset(K, index(free, free)) with subset(F, index(free, [0])) as a last column
Reduced(K, F, free) ==
    AsSeq([r \in 1..Len(free) |->
        AsSeq([c \in 1..(Len(free) + 1) |->
            IF c <= Len(free) THEN K[free[r]][free[c]] ELSE F[free[r]]])])

(***************************************************************************)
(* det and lusolve of mathjs, in exact arithmetic: Gaussian elimination    *)
(* with row exchange on the augmented matrix.  The determinant is the      *)
(* signed product of the pivots, so it is 0 exactly when a column has no   *)
(* pivot.                                                                  *)
(***************************************************************************)
RECURSIVE Eliminate(_, _)
Eliminate(A, c) ==
    IF c > Len(A) THEN [A |-> A, singular |-> FALSE]
    ELSE LET cand == {r \in c..Len(A) : A[r][c][1] # 0}
         IN  IF cand = {} THEN [A |-> A, singular |-> TRUE]
             ELSE LET p == Min(cand)
                      piv == A[p]
                      B == [A EXCEPT ![p] = A[c], ![c] = piv]
                      reduce(row) ==
                          IF row[c][1] = 0 THEN row
                          ELSE LET f == RDiv(row[c], piv[c])
                               IN  AsSeq([j \in 1..Len(row) |->
                                       IF piv[j][1] = 0 THEN row[j]
                                       ELSE RSub(row[j], RMul(f, piv[j]))])
                  IN  Eliminate(AsSeq([r \in 1..Len(B) |->
                                    IF r <= c THEN B[r] ELSE reduce(B[r])]), c + 1)

\* back substitution on the eliminated system; x holds the entries above r
RECURSIVE BackSubstitute(_, _, _)
BackSubstitute(A, r, x) ==
    IF r = 0 THEN x
    ELSE LET m == Len(A)
             RECURSIVE tail(_)
             tail(j) == IF j > m THEN RZero
                        ELSE RAdd(RMul(A[r][j], x[j]), tail(j + 1))
             v == RDiv(RSub(A[r][m + 1], tail(r + 1)), A[r][r])
         IN  BackSubstitute(A, r - 1, [x EXCEPT ![r] = v])

\* |det(K_ff)| < 1e-10.  With E*I at least that of the defaults and lengths
\* up to the default beam, every pivot of a non-singular K_ff exceeds 1 in SI
\* units, so the test fires exactly when the determinant is 0.
DetBelowTolerance(eliminated) == eliminated.singular

lusolve(eliminated) ==
    BackSubstitute(eliminated.A, Len(eliminated.A), ZeroVector(Len(eliminated.A)))

\* multiply(K, d) alone, without the applied forces
ResidualOfStiffness(K, d, F) ==
    AsSeq([r \in 1..Len(K) |->
        LET RECURSIVE dot(_)
            dot(c) == IF c = 0 THEN RZero ELSE RAdd(dot(c - 1), RMul(K[r][c], d[c]))
        IN  dot(Len(K))])

\* multiply(K, d) - F
Residual(K, d, F) ==
    AsSeq([r \in 1..Len(K) |->
        LET RECURSIVE dot(_)
            dot(c) == IF c = 0 THEN RZero ELSE RAdd(dot(c - 1), RMul(K[r][c], d[c]))
        IN  RSub(dot(Len(K)), F[r])])

Failure(msg) == [ok |-> FALSE, error |-> msg]

\* the state of one call after assembly and partition
SolveSystem(nodes, elements, loads) ==
    LET g == MeshUnit(elements)
    IN  [g |-> g,
         K |-> AssembleK(nodes, elements, g, Len(elements)),
         F |-> AssembleF(nodes, loads, g, Len(loads)),
         free |-> freeDofs(nodes)]

\* the solution written to the first DOFs, whichever are free
ScatterPacked(n, free, d_f) ==
    AsSeq([d \in 1..n |-> IF d <= Len(d_f) THEN d_f[d] ELSE RZero])

\* globalDisplacements: zeros, with the solution scattered to the free DOFs
Scatter(n, free, d_f) ==
    AsSeq([d \in 1..n |->
        IF \E i \in 1..Len(free) : free[i] = d
        THEN d_f[CHOOSE i \in 1..Len(free) : free[i] = d]
        ELSE RZero])

\* an export that reports a reaction only where the rotation is restrained
ExportResultsRotationOnly(nodes, sys, d) ==
    LET R == Residual(sys.K, d, sys.F)
        restrained == {i \in 1..Len(nodes) : isRestrainedRotation(nodes[i])}
    IN  [ok |-> TRUE,
         displacements |->
            [id \in {nodes[i].id : i \in 1..Len(nodes)} |->
                LET i == NodeIndex(nodes, id)
                IN  [y |-> d[VDof(i)], rotation |-> d[RDof(i)]]],
         reactions |->
            [id \in {nodes[i].id : i \in restrained} |->
                LET i == NodeIndex(nodes, id)
                IN  [m |-> RMul(R[RDof(i)], RInt(sys.g)), fy |-> R[VDof(i)]]]]

ExportResults(nodes, sys, d) ==
    LET R == Residual(sys.K, d, sys.F)
        restrained == {i \in 1..Len(nodes) :
                          isRestrainedY(nodes[i]) \/ isRestrainedRotation(nodes[i])}
    IN  [ok |-> TRUE,
         displacements |->
            [id \in {nodes[i].id : i \in 1..Len(nodes)} |->
                LET i == NodeIndex(nodes, id)
                IN  [y |-> d[VDof(i)], rotation |-> d[RDof(i)]]],
         reactions |->
            [id \in {nodes[i].id : i \in restrained} |->
                LET i == NodeIndex(nodes, id)
                IN  [m |-> IF isRestrainedRotation(nodes[i])
                           THEN RMul(R[RDof(i)], RInt(sys.g)) ELSE RZero,
                     fy |-> IF isRestrainedY(nodes[i]) THEN R[VDof(i)] ELSE RZero]]]

solve(nodes, elements, loads) ==
    LET g == MeshUnit(elements)
    IN  IF StiffnessThrows(elements, g) THEN Failure(StiffnessError(elements, g))
        ELSE LET sys == SolveSystem(nodes, elements, loads)
                 n == 2 * Len(nodes)
             IN  IF Len(sys.free) = 0
                 THEN ExportResults(nodes, sys, ZeroVector(n))
                 ELSE LET eliminated == Eliminate(Reduced(sys.K, sys.F, sys.free), 1)
                      IN  IF DetBelowTolerance(eliminated)
                          THEN Failure("Structure is unstable or creates a mechanism.")
                          ELSE ExportResults(nodes, sys,
                                   Scatter(n, sys.free, lusolve(eliminated)))

\* analyze, with what generateMesh and processLoads handed to the solver
AnalyzeTrace(in) ==
    LET generated == generateMesh(in)
        processed == processLoads(in.loads, generated.elements, 1)
    IN  [mesh |-> generated, domainLoads |-> processed,
         output |-> solve(generated.nodes, generated.elements, processed)]

analyze(in) == AnalyzeTrace(in).output

(***************************************************************************)
(* DiagramCalculator.calculateDiagrams.  Sample positions and values are   *)
(* rationals: x in um, shear in N, bending moment in N*um.  Deformation    *)
(* samples are in the unit of the displacements, taken from the node       *)
(* spacings as FemSolver takes it from the element lengths.                *)
(***************************************************************************)
\* eps of calculateDiagrams: 1e-3 m
DiagramEps == 1000

\* |a| > t and |a| < t for a threshold t that is an integer or 1/k
RAbsGreater(a, t) ==
    IF t[2] = 1
    THEN LET q == Abs(a[1]) \div a[2]
         IN  q > t[1] \/ (q = t[1] /\ Abs(a[1]) % a[2] > 0)
    ELSE Abs(a[1]) > a[2] \div t[2]

RAbsLess(a, t) ==
    IF t[2] = 1 THEN Abs(a[1]) \div a[2] < t[1]
    ELSE Abs(a[1]) < (a[2] + t[2] - 1) \div t[2]

\* 1e-5 N and 1e-5 N*m: a reaction component enters the diagram above these
ReactionForceTol == <<1, 100000>>
ReactionMomentTol == <<10, 1>>
\* 1e-4 N and 1e-4 N*m: smaller samples are snapped to 0
SnapForceTol == <<1, 10000>>
SnapMomentTol == <<100, 1>>

\* [...nodes].sort((a, b) => a.x - b.x): stable
RECURSIVE SortedNodes(_)
SortedNodes(nodes) ==
    IF nodes = <<>> THEN <<>>
    ELSE LET k == Min({i \in 1..Len(nodes) :
                     \A j \in 1..Len(nodes) : nodes[i].x <= nodes[j].x})
         IN  <<nodes[k]>> \o SortedNodes(SubSeq(nodes, 1, k - 1)
                                           \o SubSeq(nodes, k + 1, Len(nodes)))

\* Math.round(node.x * 1000), x in um
PositionKey(x) == (x + 500) \div 1000

\* reactions[node.id], or else reactionByPos.get(key): the entry of the last
\* node with a reaction and the same key; None when there is neither
ReactionOf(sortedNodes, reactions, i) ==
    IF sortedNodes[i].id \in DOMAIN reactions THEN reactions[sortedNodes[i].id]
    ELSE LET same == {j \in 1..Len(sortedNodes) :
                         /\ sortedNodes[j].id \in DOMAIN reactions
                         /\ PositionKey(sortedNodes[j].x) = PositionKey(sortedNodes[i].x)}
         IN  IF same = {} THEN None
             ELSE reactions[sortedNodes[CHOOSE j \in same : \A o \in same : o <= j].id]

\* reaction forces pushed with the sign turned, as the reaction moments are
RECURSIVE ReactionForcesInverted(_, _, _)
ReactionForcesInverted(sortedNodes, reactions, i) ==
    IF i > Len(sortedNodes) THEN <<>>
    ELSE LET r == ReactionOf(sortedNodes, reactions, i)
         IN  (IF r # None /\ RAbsGreater(r.fy, ReactionForceTol)
              THEN <<[x |-> sortedNodes[i].x, type |-> "reaction", mag |-> RNeg(r.fy)]>>
              ELSE <<>>) \o ReactionForcesInverted(sortedNodes, reactions, i + 1)

RECURSIVE ReactionForces(_, _, _)
ReactionForces(sortedNodes, reactions, i) ==
    IF i > Len(sortedNodes) THEN <<>>
    ELSE LET r == ReactionOf(sortedNodes, reactions, i)
         IN  (IF r # None /\ RAbsGreater(r.fy, ReactionForceTol)
              THEN <<[x |-> sortedNodes[i].x, type |-> "reaction", mag |-> r.fy]>>
              ELSE <<>>) \o ReactionForces(sortedNodes, reactions, i + 1)

RECURSIVE ReactionMoments(_, _, _)
ReactionMoments(sortedNodes, reactions, i) ==
    IF i > Len(sortedNodes) THEN <<>>
    ELSE LET r == ReactionOf(sortedNodes, reactions, i)
         IN  (IF r # None /\ RAbsGreater(r.m, ReactionMomentTol)
              THEN <<[x |-> sortedNodes[i].x, type |-> "reaction", mag |-> RNeg(r.m)]>>
              ELSE <<>>) \o ReactionMoments(sortedNodes, reactions, i + 1)

\* a view that keeps every load, whatever its category
unfilteredLoads(loadList, viewMode, k) == loadList

RECURSIVE filteredLoads(_, _, _)
filteredLoads(loadList, viewMode, k) ==
    IF k > Len(loadList) THEN <<>>
    ELSE LET cat == CategoryOf(loadList[k])
             keep == IF viewMode = "dead" THEN cat = "Dead"
                     ELSE IF viewMode = "live" THEN cat = "Live"
                     ELSE FALSE
         IN  (IF keep THEN <<loadList[k]>> ELSE <<>>)
                 \o filteredLoads(loadList, viewMode, k + 1)

\* the entries the filtered loads of one type push
RECURSIVE LoadEntries(_, _, _)
LoadEntries(filtered, type, k) ==
    IF k > Len(filtered) THEN <<>>
    ELSE LET l == filtered[k]
             entry == IF l.type # type THEN <<>>
                      ELSE IF type = "DistributedForce"
                      THEN (IF l.magnitude[1] # 0   \* |mag| > 1e-5 N/m = 1e-11 N/um
                            THEN <<[startX |-> l.startX, endX |-> l.endX,
                                    mag |-> l.magnitude]>>
                            ELSE <<>>)
                      ELSE <<[x |-> l.x, type |-> "load", mag |-> l.magnitude]>>
         IN  entry \o LoadEntries(filtered, type, k + 1)

\* a section that also counts what sits at the right edge
CountedToTheEnd(fx, x, beamLength) == ~RLess(RAdd(x, RInt(DiagramEps)), RInt(fx))

\* a right edge that starts at the end of the beam: isAtEnd = f.x >= length
CountedUpToLength(fx, x, beamLength) ==
    /\ ~RLess(RAdd(x, RInt(DiagramEps)), RInt(fx))
    /\ ~(fx >= beamLength)

\* f.x <= x + eps && !(f.x >= length - eps)
Counted(fx, x, beamLength) ==
    /\ ~RLess(RAdd(x, RInt(DiagramEps)), RInt(fx))
    /\ ~(fx >= beamLength - DiagramEps)

RMin(a, b) == IF RLess(b, a) THEN b ELSE a

\* totalLoad of a distributed load left of the section at x, 0 when none
DistTotal(d, x) ==
    LET width == RSub(RMin(x, RInt(d.endX)), RInt(d.startX))
    IN  IF RLess(RInt(d.startX - DiagramEps), x) /\ RLess(RZero, width)
        THEN RMul(d.mag, width) ELSE RZero

DistLever(d, x) ==
    LET width == RSub(RMin(x, RInt(d.endX)), RInt(d.startX))
        centroidX == RAdd(RInt(d.startX), RDiv(width, RInt(2)))
    IN  RSub(x, centroidX)

\* V at the section x, before the snap
RECURSIVE ShearOfForces(_, _, _, _)
ShearOfForces(pointForces, x, beamLength, k) ==
    IF k = 0 THEN RZero
    ELSE RAdd(ShearOfForces(pointForces, x, beamLength, k - 1),
              IF Counted(pointForces[k].x, x, beamLength) THEN pointForces[k].mag
              ELSE RZero)

RECURSIVE ShearOfDist(_, _, _)
ShearOfDist(distLoads, x, k) ==
    IF k = 0 THEN RZero
    ELSE RAdd(ShearOfDist(distLoads, x, k - 1), DistTotal(distLoads[k], x))

\* M at the section x, before the snap
RECURSIVE MomentOfForces(_, _, _, _)
MomentOfForces(pointForces, x, beamLength, k) ==
    IF k = 0 THEN RZero
    ELSE RAdd(MomentOfForces(pointForces, x, beamLength, k - 1),
              IF Counted(pointForces[k].x, x, beamLength)
              THEN RMul(pointForces[k].mag, RSub(x, RInt(pointForces[k].x)))
              ELSE RZero)

RECURSIVE MomentOfMoments(_, _, _, _)
MomentOfMoments(pointMoments, x, beamLength, k) ==
    IF k = 0 THEN RZero
    ELSE RAdd(MomentOfMoments(pointMoments, x, beamLength, k - 1),
              IF Counted(pointMoments[k].x, x, beamLength) THEN pointMoments[k].mag
              ELSE RZero)

RECURSIVE MomentOfDist(_, _, _)
MomentOfDist(distLoads, x, k) ==
    IF k = 0 THEN RZero
    ELSE RAdd(MomentOfDist(distLoads, x, k - 1),
              RMul(DistTotal(distLoads[k], x), DistLever(distLoads[k], x)))

Snap(v, tol) == IF RAbsLess(v, tol) THEN RZero ELSE v

\* the unit of the displacements of a mesh with these nodes (see the header)
RECURSIVE GcdOfSpacings(_, _)
GcdOfSpacings(sortedNodes, j) ==
    IF j = 0 THEN 0
    ELSE LET L == sortedNodes[j + 1].x - sortedNodes[j].x
         IN  GCD(IF L > EpsGeom THEN L ELSE 0, GcdOfSpacings(sortedNodes, j - 1))

DisplacementUnit(sortedNodes) ==
    LET g == GcdOfSpacings(sortedNodes, Len(sortedNodes) - 1) IN IF g = 0 THEN 1 ELSE g

\* displacements[node.id]?.y || 0 and displacements[node.id]?.rotation || 0
DisplacementY(displacements, id) ==
    IF id \in DOMAIN displacements THEN displacements[id].y ELSE RZero
DisplacementRotation(displacements, id) ==
    IF id \in DOMAIN displacements THEN displacements[id].rotation ELSE RZero

\* the Hermite interpolation on the element from node1 to node2
Hermite(node1, node2, displacements, x, g) ==
    LET L == node2.x - node1.x
        xi == RDiv(RSub(x, RInt(node1.x)), RInt(L))
        xi2 == RMul(xi, xi)
        xi3 == RMul(xi2, xi)
        N1 == RAdd(RSub(RInt(1), RMul(RInt(3), xi2)), RMul(RInt(2), xi3))
        N2 == RMul(Rat(L, g), RAdd(RSub(xi, RMul(RInt(2), xi2)), xi3))
        N3 == RSub(RMul(RInt(3), xi2), RMul(RInt(2), xi3))
        N4 == RMul(Rat(L, g), RSub(xi3, xi2))
    IN  RAdd(RAdd(RMul(N1, DisplacementY(displacements, node1.id)),
                  RMul(N2, DisplacementRotation(displacements, node1.id))),
             RAdd(RMul(N3, DisplacementY(displacements, node2.id)),
                  RMul(N4, DisplacementRotation(displacements, node2.id))))

\* defY at x: the first pair of consecutive nodes whose span, widened by
\* eps, holds x decides; a pair closer than 1e-6 m leaves 0
Deformation(sortedNodes, displacements, x) ==
    LET holds == {j \in 1..(Len(sortedNodes) - 1) :
                     /\ ~RLess(x, RInt(sortedNodes[j].x - DiagramEps))
                     /\ ~RLess(RInt(sortedNodes[j + 1].x + DiagramEps), x)}
    IN  IF holds = {} THEN RZero
        ELSE LET j == Min(holds)
             IN  IF sortedNodes[j + 1].x - sortedNodes[j].x < EpsGeom THEN RZero
                 ELSE Hermite(sortedNodes[j], sortedNodes[j + 1], displacements, x,
                              DisplacementUnit(sortedNodes))

\* a sampling that starts one step into the beam
SampleXFromOne(i, beamLength, resolution) ==
    RMul(RInt(i + 1), Rat(beamLength, resolution))

\* x = i * step, with step = length / resolution
SampleX(i, beamLength, resolution) == RMul(RInt(i), Rat(beamLength, resolution))

calculateDiagrams(beamLength, nodes, loadList, reactions, displacements, resolution, viewMode) ==
    LET sortedNodes == SortedNodes(nodes)
        filtered == filteredLoads(loadList, viewMode, 1)
        pointForces == ReactionForces(sortedNodes, reactions, 1)
                           \o LoadEntries(filtered, "PointForce", 1)
        pointMoments == ReactionMoments(sortedNodes, reactions, 1)
                            \o LoadEntries(filtered, "PointMoment", 1)
        distLoads == LoadEntries(filtered, "DistributedForce", 1)
        X(i) == SampleX(i - 1, beamLength, resolution)
        V(x) == RAdd(ShearOfForces(pointForces, x, beamLength, Len(pointForces)),
                     ShearOfDist(distLoads, x, Len(distLoads)))
        M(x) == RAdd(RAdd(MomentOfForces(pointForces, x, beamLength, Len(pointForces)),
                          MomentOfMoments(pointMoments, x, beamLength, Len(pointMoments))),
                     MomentOfDist(distLoads, x, Len(distLoads)))
    IN  [shearForce |->
             AsSeq([i \in 1..(resolution + 1) |->
                 [x |-> X(i), value |-> Snap(V(X(i)), SnapForceTol)]]),
         bendingMoment |->
             AsSeq([i \in 1..(resolution + 1) |->
                 [x |-> X(i), value |-> Snap(M(X(i)), SnapMomentTol)]]),
         deformation |->
             AsSeq([i \in 1..(resolution + 1) |->
                 [x |-> X(i), value |-> Deformation(sortedNodes, displacements, X(i))]])]

(***************************************************************************)
(* State.  The first six variables are the state of the useBeamAnalysis    *)
(* hook.  input, mesh, domainLoads and output record the last call of      *)
(* BeamAnalysisService: its argument, what generateMesh and processLoads   *)
(* produced, and what analyze returned (ok = TRUE) or threw (ok = FALSE).  *)
(* request and diagrams are the argument and the value of the last call of *)
(* DiagramCalculator.calculateDiagrams, previous the call before it.       *)
(***************************************************************************)
VARIABLES length, supports, loads, material, results, error,
          input, mesh, domainLoads, output,
          request, diagrams, previous, pc

vars == <<length, supports, loads, material, results, error,
          input, mesh, domainLoads, output, request, diagrams, previous, pc>>

hookVars == <<length, supports, loads, material, results, error>>
callVars == <<input, mesh, domainLoads, output>>
diagramVars == <<request, diagrams, previous>>

\* useState: the hook's state after construction
HookInit ==
    /\ length = 10000000
    /\ supports = <<>>
    /\ loads = <<>>
    /\ material = [E |-> 1, I |-> 1]
    /\ results = None
    /\ error = Null

NoCall == input = None /\ mesh = None /\ domainLoads = None /\ output = None
NoDiagram == request = None /\ diagrams = None /\ previous = None

(***************************************************************************)
(* Bounds and the inputs explored.                                         *)
(***************************************************************************)
MaxSupports == 2
MaxLoads == 1

SeqsUpTo(S, n) == UNION {[1..k -> S] : k \in 0..n}

SupportTypes == {"Pin", "Roller", "Fixed"}

\* what a caller gives for a load, before the load has an id
PointForceInput(magnitude, x) ==
    [x |-> x, type |-> "PointForce", magnitude |-> RInt(magnitude)]
PointMomentInput(magnitude, x) ==
    [x |-> x, type |-> "PointMoment", magnitude |-> RInt(magnitude)]
DistributedForceInput(w, startX, endX) ==
    [startX |-> startX, endX |-> endX, type |-> "DistributedForce", magnitude |-> w]

\* the BeamLoadInput with this id; it has a category when one is given
LoadInput(id, given) ==
    IF HasX(given)
    THEN IF "category" \in DOMAIN given
         THEN [id |-> id, x |-> given.x, category |-> given.category,
               type |-> given.type, magnitude |-> given.magnitude]
         ELSE [id |-> id, x |-> given.x, type |-> given.type,
               magnitude |-> given.magnitude]
    ELSE IF "category" \in DOMAIN given
         THEN [id |-> id, category |-> given.category, startX |-> given.startX,
               endX |-> given.endX, type |-> given.type,
               magnitude |-> given.magnitude]
         ELSE [id |-> id, startX |-> given.startX, endX |-> given.endX,
               type |-> given.type, magnitude |-> given.magnitude]

\* a list of loads, with ids in list order
WithIds(s) == AsSeq([k \in 1..Len(s) |-> LoadInput(k, s[k])])

BeamInputs(lengths, supportOptions, loadOptions) ==
    {[E |-> 1, I |-> 1, length |-> L, supports |-> s, loads |-> WithIds(l)] :
        L \in lengths,
        s \in SeqsUpTo(supportOptions, MaxSupports),
        l \in SeqsUpTo(loadOptions, MaxLoads)}

SupportsAt(xs, types) == {[x |-> x, type |-> t] : x \in xs, t \in types}

\* Loads on a grid of 95 um: point forces of -1 N, point moments of 95 N*um
\* and distributed forces of -1 N per 95 um.
LoadsAt(xs, spans) ==
    {PointForceInput(-1, x) : x \in xs}
    \cup {PointMomentInput(95, x) : x \in xs}
    \cup {DistributedForceInput(<<-1, 95>>, ab[1], ab[2]) : ab \in spans}

\* Inputs of analyze on the beam of 1235 um (and of length 0): the features
\* at 0, 95 and 190 lie within 1e-3 m of each other, 0 and 95 within 1e-4 m,
\* and 2280 lies beyond the beam.
ShortBeamInputs ==
    BeamInputs({1235, 0}, SupportsAt({0, 95, 1235, 2280}, SupportTypes),
               LoadsAt({0, 95, 190, 1235, 2280},
                       {<<0, 1235>>, <<95, 1235>>, <<190, 1235>>, <<0, 190>>, <<95, 190>>}))

\* Inputs of analyze on the beam of 2470 um: the features at 0, 1235 and
\* 2470 are more than 1e-3 m apart.
LongBeamInputs ==
    BeamInputs({2470}, SupportsAt({0, 1235, 2470}, SupportTypes),
               LoadsAt({0, 1235, 2470}, {<<0, 2470>>, <<0, 1235>>, <<1235, 2470>>}))

\* Inputs of generateMesh alone: features down to 1 um = 1e-6 m apart.
MeshPositions == {0, 1, 95, 1235, 2280}
MeshInputs ==
    BeamInputs({1235, 95, 0}, SupportsAt(MeshPositions, {"Pin", "Fixed"}),
               {PointForceInput(-1, x) : x \in MeshPositions}
               \cup {DistributedForceInput(<<-1, 95>>, 1, 1235)})

(***************************************************************************)
(* BeamAnalysisService.analyze as one step, on an input drawn in the       *)
(* initial state.                                                          *)
(***************************************************************************)
InitAnalyze ==
    /\ HookInit
    /\ (input \in ShortBeamInputs \/ input \in LongBeamInputs)
    /\ mesh = None /\ domainLoads = None /\ output = None
    /\ NoDiagram
    /\ pc = "ready"

Analyze ==
    /\ pc = "ready"
    /\ LET call == AnalyzeTrace(input)
       IN  /\ mesh' = call.mesh
           /\ domainLoads' = call.domainLoads
           /\ output' = call.output
    /\ pc' = "done"
    /\ UNCHANGED <<input, hookVars, diagramVars>>

SpecAnalyze == InitAnalyze /\ [][Analyze]_vars

(***************************************************************************)
(* BeamAnalysisService.generateMesh as one step.                           *)
(***************************************************************************)
InitMesh ==
    /\ HookInit
    /\ input \in MeshInputs
    /\ mesh = None /\ domainLoads = None /\ output = None
    /\ NoDiagram
    /\ pc = "ready"

GenerateMesh ==
    /\ pc = "ready"
    /\ mesh' = generateMesh(input)
    /\ pc' = "done"
    /\ UNCHANGED <<input, domainLoads, output, hookVars, diagramVars>>

SpecMesh == InitMesh /\ [][GenerateMesh]_vars

(***************************************************************************)
(* The useBeamAnalysis hook.  Every callback is one step.  The beam starts *)
(* at 10 m, so the callbacks are explored on a grid of 5 m: point forces   *)
(* of 1 N, point moments of 5 N*m and distributed forces of 1 N per 5 m.   *)
(***************************************************************************)
HookLengths == {5000000, 0}
HookPositions == {0, 5000000, 10000000}
HookMaterials == {[E |-> 1, I |-> 1], [E |-> 2, I |-> 1]}
LoadCategories == {"Dead", "Live"}

\* what addLoad may be called with: type, magnitude and the positions given
HookLoadArgs ==
    {PointForceInput(1, 5000000), PointMomentInput(5000000, 10000000),
     DistributedForceInput(<<1, 5000000>>, 0, 10000000)}

Filter(s, keep(_)) ==
    LET RECURSIVE go(_)
        go(k) == IF k > Len(s) THEN <<>>
                 ELSE IF keep(s[k]) THEN <<s[k]>> \o go(k + 1) ELSE go(k + 1)
    IN  go(1)

\* an id that does not depend on the list: always the same one
generateIdConstant(list) == 1

\* generateId draws a random string; ids are only compared within the list
\* they are added to, and the model takes the least id the list does not hold
generateId(list) ==
    Min({i \in 1..(Len(list) + 1) : \A k \in 1..Len(list) : list[k].id # i})

\* the hook's processedLoads: the loads as Load objects, for the diagrams
RECURSIVE processedLoads(_, _)
processedLoads(loadInputs, k) ==
    IF k > Len(loadInputs) THEN <<>>
    ELSE LET load == loadInputs[k]
             category == CategoryOf(load)
             converted ==
                 IF load.type = "PointForce" /\ HasX(load)
                 THEN PointForceLoad(load.id, load.magnitude, load.x, category)
                 ELSE IF load.type = "PointMoment" /\ HasX(load)
                 THEN PointMomentLoad(load.id, load.magnitude, load.x, category)
                 ELSE IF load.type = "DistributedForce" /\ HasSpan(load)
                 THEN DistributedForceLoad(load.id, load.magnitude, load.startX,
                                           load.endX, category)
                 ELSE PointForceLoad(load.id, RZero, 0, category)
         IN  (IF converted.type # "PointForce" \/ converted.magnitude # RZero
              THEN <<converted>> ELSE <<>>) \o processedLoads(loadInputs, k + 1)

\* a step that is no call of the services
Idle ==
    /\ input' = None /\ mesh' = None /\ domainLoads' = None /\ output' = None
    /\ pc' = "idle"
    /\ UNCHANGED diagramVars

updateLength(newLength) ==
    /\ IF newLength > 0
       THEN /\ length' = newLength
            /\ results' = None
            /\ supports' = Filter(supports, LAMBDA sp : sp.x <= newLength)
            /\ loads' = Filter(loads, LAMBDA l : (IF HasX(l) THEN l.x ELSE 0) <= newLength)
       ELSE UNCHANGED <<length, results, supports, loads>>
    /\ UNCHANGED <<material, error>>
    /\ Idle

\* an addSupport that appends without removing the supports nearby
addSupportAppend(x, type) ==
    /\ Len(supports) < MaxSupports
    /\ supports' = Append(supports, [id |-> generateId(supports), x |-> x, type |-> type])
    /\ results' = None
    /\ UNCHANGED <<length, loads, material, error>>
    /\ Idle

addSupport(x, type) ==
    LET filtered == Filter(supports, LAMBDA sp : Abs(sp.x - x) > EpsNode)
    IN  /\ Len(filtered) < MaxSupports
        /\ supports' = Append(filtered, [id |-> generateId(filtered), x |-> x, type |-> type])
        /\ results' = None
        /\ UNCHANGED <<length, loads, material, error>>
        /\ Idle

removeSupport(id) ==
    /\ supports' = Filter(supports, LAMBDA sp : sp.id # id)
    /\ results' = None
    /\ UNCHANGED <<length, loads, material, error>>
    /\ Idle

\* an argument the caller leaves out
Undefined == "undefined"

\* a default that is the one of processLoads, 'Dead'
CategoryArgumentDead(category) == IF category = Undefined THEN "Dead" ELSE category

\* a default direction that is 'up'
DirectionArgumentUp(direction) == IF direction = Undefined THEN "up" ELSE direction

\* direction: 'up' | 'down' = 'down', category: LoadCategory = 'Live'
DirectionArgument(direction) == IF direction = Undefined THEN "down" ELSE direction
CategoryArgument(category) == IF category = Undefined THEN "Live" ELSE category

\* the model bounds the list by the guard maxLoads, which the hook does not have
addLoadUpTo(maxLoads, args, direction, category) ==
    LET signedMagnitude == IF DirectionArgument(direction) = "down"
                           THEN RNeg(RAbs(args.magnitude))
                           ELSE RAbs(args.magnitude)
        newLoad == IF HasX(args)
                   THEN [id |-> generateId(loads), x |-> args.x,
                         category |-> CategoryArgument(category), type |-> args.type,
                         magnitude |-> signedMagnitude]
                   ELSE [id |-> generateId(loads), category |-> CategoryArgument(category),
                         startX |-> args.startX, endX |-> args.endX,
                         type |-> args.type, magnitude |-> signedMagnitude]
    IN  /\ Len(loads) < maxLoads
        /\ loads' = Append(loads, newLoad)
        /\ results' = None
        /\ UNCHANGED <<length, supports, material, error>>
        /\ Idle

addLoad(args, direction, category) == addLoadUpTo(MaxLoads, args, direction, category)

removeLoad(id) ==
    /\ loads' = Filter(loads, LAMBDA l : l.id # id)
    /\ results' = None
    /\ UNCHANGED <<length, supports, material, error>>
    /\ Idle

updateLoadCategory(id, category) ==
    /\ loads' = [k \in 1..Len(loads) |->
                    IF loads[k].id = id THEN [loads[k] EXCEPT !.category = category]
                    ELSE loads[k]]
    /\ results' = None
    /\ UNCHANGED <<length, supports, material, error>>
    /\ Idle

setMaterial(m) ==
    /\ material' = m
    /\ UNCHANGED <<length, supports, loads, results, error>>
    /\ Idle

\* the points of the hook's nodes memo: 0, length, the supports and the loads
HookPoints ==
    {0, length}
    \cup {supports[k].x : k \in 1..Len(supports)}
    \cup {loads[k].x : k \in {j \in 1..Len(loads) : HasX(loads[j])}}
    \cup {loads[k].startX : k \in {j \in 1..Len(loads) : "startX" \in DOMAIN loads[j]}}
    \cup {loads[k].endX : k \in {j \in 1..Len(loads) : "endX" \in DOMAIN loads[j]}}

\* a node list that keeps the points beyond the beam
hookNodesUnfiltered ==
    LET sortedX == SortAsc(HookPoints)
    IN  AsSeq([i \in 1..Len(sortedX) |->
            Node(i - 1, sortedX[i], SupportTypeAt(supports, sortedX[i]))])

\* nodes, the list the hook exposes for visualization
hookNodes ==
    LET sortedX == SortAsc({x \in HookPoints : x >= 0 /\ x <= length})
    IN  AsSeq([i \in 1..Len(sortedX) |->
            Node(i - 1, sortedX[i], SupportTypeAt(supports, sortedX[i]))])

\* the BeamInput solve builds from the state
HookInput ==
    [E |-> material.E, I |-> material.I, length |-> length,
     supports |-> supports, loads |-> loads]

\* a solve whose catch branch drops the message
hookSolveSilent ==
    LET call == AnalyzeTrace(HookInput)
        calculatedResults == call.output
    IN  /\ input' = HookInput
        /\ mesh' = call.mesh
        /\ domainLoads' = call.domainLoads
        /\ output' = calculatedResults
        /\ error' = Null
        /\ results' = IF calculatedResults.ok
                      THEN [displacements |-> calculatedResults.displacements,
                            reactions |-> calculatedResults.reactions]
                      ELSE None
        /\ pc' = "solved"
        /\ UNCHANGED <<length, supports, loads, material, diagramVars>>

\* a solve without the setError(null) it starts with
hookSolveKeepsError ==
    LET call == AnalyzeTrace(HookInput)
        calculatedResults == call.output
    IN  /\ input' = HookInput
        /\ mesh' = call.mesh
        /\ domainLoads' = call.domainLoads
        /\ output' = calculatedResults
        /\ IF calculatedResults.ok
           THEN /\ error' = error
                /\ results' = [displacements |-> calculatedResults.displacements,
                               reactions |-> calculatedResults.reactions]
           ELSE /\ error' = calculatedResults.error
                /\ results' = None
        /\ pc' = "solved"
        /\ UNCHANGED <<length, supports, loads, material, diagramVars>>

hookSolve ==
    LET call == AnalyzeTrace(HookInput)
        calculatedResults == call.output
    IN  /\ input' = HookInput
        /\ mesh' = call.mesh
        /\ domainLoads' = call.domainLoads
        /\ output' = calculatedResults
        /\ IF calculatedResults.ok
           THEN /\ error' = Null
                /\ results' = [displacements |-> calculatedResults.displacements,
                               reactions |-> calculatedResults.reactions]
           ELSE /\ error' = calculatedResults.error
                /\ results' = None
        /\ pc' = "solved"
        /\ UNCHANGED <<length, supports, loads, material, diagramVars>>

Init ==
    /\ HookInit
    /\ NoCall
    /\ NoDiagram
    /\ pc = "idle"

Next ==
    \/ \E newLength \in HookLengths : updateLength(newLength)
    \/ \E x \in HookPositions, type \in SupportTypes : addSupport(x, type)
    \/ \E k \in 1..Len(supports) : removeSupport(supports[k].id)
    \/ \E args \in HookLoadArgs, direction \in {"down", "up"}, category \in LoadCategories :
           addLoad(args, direction, category)
    \/ \E k \in 1..Len(loads) : removeLoad(loads[k].id)
    \/ \E k \in 1..Len(loads), category \in LoadCategories :
           updateLoadCategory(loads[k].id, category)
    \/ \E m \in HookMaterials : setMaterial(m)
    \/ hookSolve

Spec == Init /\ [][Next]_vars

(***************************************************************************)
(* analyze followed by calculateDiagrams on its nodes, reactions and       *)
(* displacements: a first call with any resolution, view and load list,    *)
(* then the same request with another load list.  The beam is 10 m long,   *)
(* with loads on a grid of 5 m.                                            *)
(***************************************************************************)
MaxDiagramLoads == 2

DiagramResolutions == {1, 4}
ViewModes == {"dead", "live"}

DiagramLoadInputs ==
    {[x |-> 5000000, category |-> c, type |-> "PointForce", magnitude |-> RInt(-10)] :
        c \in {"Dead", "Live"}}
    \cup {[category |-> "Wind", startX |-> 0,
           endX |-> 10000000, type |-> "DistributedForce", magnitude |-> <<-1, 5000000>>],
          [x |-> 5000000, category |-> "Live", type |-> "PointMoment",
           magnitude |-> RInt(5000000)]}

DiagramLoadLists ==
    {WithIds(l) : l \in SeqsUpTo(DiagramLoadInputs, MaxDiagramLoads)}

DiagramSupports ==
    {<<[x |-> 0, type |-> "Pin"], [x |-> 10000000, type |-> "Roller"]>>,
     <<[x |-> 0, type |-> "Fixed"]>>,
     <<>>}

InitDiagram ==
    /\ HookInit
    /\ \E s \in DiagramSupports, l \in DiagramLoadLists :
           /\ Len(l) <= 1
           /\ input = [E |-> 1, I |-> 1, length |-> 10000000, supports |-> s, loads |-> l]
    /\ mesh = None /\ domainLoads = None /\ output = None
    /\ NoDiagram
    /\ pc = "ready"

\* one call of calculateDiagrams on the mesh and the result of the analysis
Draw(resolution, viewMode, loadList) ==
    /\ request' = [length |-> input.length, loads |-> loadList, nodes |-> mesh.nodes,
                   displacements |-> output.displacements,
                   reactions |-> output.reactions,
                   viewMode |-> viewMode, resolution |-> resolution]
    /\ diagrams' = calculateDiagrams(input.length, mesh.nodes, loadList, output.reactions,
                                     output.displacements, resolution, viewMode)
    /\ pc' = "drawn"
    /\ UNCHANGED <<hookVars, callVars>>

CalculateDiagrams(resolution, viewMode, loadList) ==
    /\ pc = "done"
    /\ output.ok
    /\ previous' = None
    /\ Draw(resolution, viewMode, loadList)

Recalculate(loadList) ==
    /\ pc = "drawn"
    /\ previous = None
    /\ previous' = [request |-> request, diagrams |-> diagrams]
    /\ Draw(request.resolution, request.viewMode, loadList)

NextDiagram ==
    \/ Analyze
    \/ \E resolution \in DiagramResolutions, viewMode \in ViewModes,
          l \in DiagramLoadLists :
           CalculateDiagrams(resolution, viewMode, processedLoads(l, 1))
    \/ \E l \in DiagramLoadLists : Recalculate(processedLoads(l, 1))

SpecDiagram == InitDiagram /\ [][NextDiagram]_vars

(***************************************************************************)
(* A simply supported beam (Pin at 0, Roller at length) with one point     *)
(* force at mid-span, analysed and then drawn with the hook's              *)
(* processedLoads.  The beams are 10 m, 10 mm, 2 mm and 0.8 mm long: on    *)
(* the last three the eps of calculateDiagrams (1 mm) is not small against *)
(* the beam, and on the last the load point is less than 0.5 mm from the   *)
(* support at 0.                                                           *)
(* The forces are 10 N and 4 N downwards, 6 N upwards and 1e-4 N           *)
(* downwards, whose shear of 5e-5 N is below the 1e-4 of the snap.         *)
(***************************************************************************)
ShearLengths == {10000000, 10000, 2000, 800}
ShearMagnitudes == {RInt(-10), RInt(-4), RInt(6), <<-1, 10000>>}
ShearResolutions == {1, 2, 4, 5}

MidSpanInput(L, magnitude, category) ==
    [E |-> 1, I |-> 1, length |-> L,
     supports |-> <<[x |-> 0, type |-> "Pin"], [x |-> L, type |-> "Roller"]>>,
     loads |-> <<[id |-> 1, x |-> L \div 2, category |-> category,
                  type |-> "PointForce", magnitude |-> magnitude]>>]

InitShear ==
    /\ HookInit
    /\ \E L \in ShearLengths, magnitude \in ShearMagnitudes, category \in LoadCategories :
           input = MidSpanInput(L, magnitude, category)
    /\ mesh = None /\ domainLoads = None /\ output = None
    /\ NoDiagram
    /\ pc = "ready"

NextShear ==
    \/ Analyze
    \/ \E resolution \in ShearResolutions, viewMode \in ViewModes :
           CalculateDiagrams(resolution, viewMode, processedLoads(input.loads, 1))

SpecShear == InitShear /\ [][NextShear]_vars

(***************************************************************************)
(* Two calls of BeamAnalysisService.analyze in progress at once.  Here     *)
(* input, mesh, domainLoads, output and pc hold one value per call: the    *)
(* argument, the locals nodes/elements and domainLoads, the value returned *)
(* or thrown, and the statement the call has reached.  Each statement of   *)
(* analyze is one step, and the steps of the two calls interleave freely.  *)
(***************************************************************************)
Calls == {1, 2}
OtherCall(c) == 3 - c

ConcurrentInputs ==
    {[E |-> 1, I |-> 1, length |-> 2470, supports |-> s, loads |-> WithIds(l)] :
        s \in {<<[x |-> 0, type |-> "Pin"], [x |-> 2470, type |-> "Roller"]>>,
               <<[x |-> 0, type |-> "Fixed"]>>,
               <<>>},
        l \in {<<PointForceInput(-1, 1235)>>,
               <<DistributedForceInput(<<-1, 95>>, 0, 1235)>>}}

InitConcurrent ==
    /\ HookInit
    /\ \E a \in ConcurrentInputs, b \in ConcurrentInputs : input = <<a, b>>
    /\ mesh = <<None, None>> /\ domainLoads = <<None, None>> /\ output = <<None, None>>
    /\ NoDiagram
    /\ pc = <<"ready", "ready">>

\* a mesh kept where both calls find it: a call sees the other call's mesh
\* once that one has generated it
MeshOfEitherCall(c) == IF mesh[OtherCall(c)] # None THEN mesh[OtherCall(c)] ELSE mesh[c]

\* const { nodes, elements } of the call
MeshOfCall(c) == mesh[c]

\* const { nodes, elements } = this.generateMesh(input)
CallGenerateMesh(c) ==
    /\ pc[c] = "ready"
    /\ mesh' = [mesh EXCEPT ![c] = generateMesh(input[c])]
    /\ pc' = [pc EXCEPT ![c] = "meshed"]
    /\ UNCHANGED <<input, domainLoads, output, hookVars, diagramVars>>

\* const domainLoads = this.processLoads(input.loads, elements)
CallProcessLoads(c) ==
    /\ pc[c] = "meshed"
    /\ domainLoads' = [domainLoads EXCEPT
                          ![c] = processLoads(input[c].loads, MeshOfCall(c).elements, 1)]
    /\ pc' = [pc EXCEPT ![c] = "loaded"]
    /\ UNCHANGED <<input, mesh, output, hookVars, diagramVars>>

\* return FemSolver.solve(nodes, elements, domainLoads)
CallSolve(c) ==
    /\ pc[c] = "loaded"
    /\ output' = [output EXCEPT
                     ![c] = solve(MeshOfCall(c).nodes, MeshOfCall(c).elements,
                                  domainLoads[c])]
    /\ pc' = [pc EXCEPT ![c] = "done"]
    /\ UNCHANGED <<input, mesh, domainLoads, hookVars, diagramVars>>

NextConcurrent ==
    \E c \in Calls : CallGenerateMesh(c) \/ CallProcessLoads(c) \/ CallSolve(c)

SpecConcurrent == InitConcurrent /\ [][NextConcurrent]_vars

(***************************************************************************)
(* The hook driven as its end-to-end test drives it: supports are added at *)
(* the beam ends, a point force of 1 N is added at an interior position,   *)
(* and solve is called.  The interior positions are mid-span and 1 um      *)
(* = 1e-6 m from the left end.                                             *)
(***************************************************************************)
EndPositions == {0, 10000000}
InteriorPositions == {1, 5000000}

NextEndToEnd ==
    \/ \E x \in EndPositions, type \in SupportTypes : addSupport(x, type)
    \/ \E x \in InteriorPositions, direction \in {"down", "up"},
          category \in LoadCategories :
           addLoad(PointForceInput(1, x), direction, category)
    \/ hookSolve

SpecEndToEnd == Init /\ [][NextEndToEnd]_vars

(***************************************************************************)
(* The hook's editing callbacks alone, with up to two loads and with       *)
(* supports 0.5 mm apart; addLoad is also called without a direction and   *)
(* without a category.                                                     *)
(***************************************************************************)
MaxEditLoads == 2

EditPositions == {0, 500, 5000000, 10000000}
EditLoadArgs ==
    {PointForceInput(1, 5000000), PointForceInput(-1, 5000000),
     DistributedForceInput(<<1, 5000000>>, 0, 10000000)}

NextEdit ==
    \/ \E x \in EditPositions, type \in SupportTypes : addSupport(x, type)
    \/ \E k \in 1..Len(supports) : removeSupport(supports[k].id)
    \/ \E args \in EditLoadArgs, direction \in {"up", Undefined},
          category \in LoadCategories \cup {Undefined} :
           addLoadUpTo(MaxEditLoads, args, direction, category)
    \/ \E k \in 1..Len(loads) : removeLoad(loads[k].id)
    \/ \E k \in 1..Len(loads), category \in LoadCategories :
           updateLoadCategory(loads[k].id, category)

SpecEdit == Init /\ [][NextEdit]_vars

(***************************************************************************)
(* Claims about analyze, checked under SpecAnalyze (C4 under SpecMesh).    *)
(***************************************************************************)
Analyzed == pc = "done" /\ output # None
Returned == Analyzed /\ output.ok
Threw == Analyzed /\ ~output.ok

InDomain(x, in) == x >= 0 /\ x <= in.length

\* an input none of the error conditions of the specification applies to
ValidInput(in) ==
    /\ in.length > 0 /\ in.E > 0 /\ in.I > 0
    /\ \A k \in 1..Len(in.supports) : InDomain(in.supports[k].x, in)
    /\ \A j, k \in 1..Len(in.supports) :
           j # k => Abs(in.supports[j].x - in.supports[k].x) >= EpsMerge
    /\ \A k \in 1..Len(in.loads) :
           IF HasX(in.loads[k]) THEN InDomain(in.loads[k].x, in)
           ELSE /\ InDomain(in.loads[k].startX, in) /\ InDomain(in.loads[k].endX, in)
                /\ in.loads[k].startX < in.loads[k].endX

\* the vertical force one input load applies: its magnitude, or w*(b - a)
AppliedVertical(l) ==
    IF l.type = "PointForce" THEN l.magnitude
    ELSE IF l.type = "DistributedForce"
         THEN RMul(l.magnitude, RInt(l.endX - l.startX))
         ELSE RZero

RECURSIVE SumApplied(_, _)
SumApplied(ls, k) ==
    IF k = 0 THEN RZero ELSE RAdd(SumApplied(ls, k - 1), AppliedVertical(ls[k]))

RECURSIVE SumFy(_, _)
SumFy(reactions, ids) ==
    IF ids = {} THEN RZero
    ELSE LET id == Min(ids) IN RAdd(reactions[id].fy, SumFy(reactions, ids \ {id}))

NodeIds(nodes) == {nodes[i].id : i \in 1..Len(nodes)}

\* C1: whenever analyze returns a result for a valid input, the sum of
\* reactions.fy over the nodes plus the applied vertical forces (point-force
\* magnitudes, w*(b-a) per distributed load) is 0.
C1_GlobalEquilibrium ==
    (Returned /\ ValidInput(input)) =>
        RAdd(SumFy(output.reactions, DOMAIN output.reactions),
             SumApplied(input.loads, Len(input.loads))) = RZero

\* no two feature coordinates of the input within 1e-4 m of each other
FeaturesApart(in) ==
    \A a, b \in MeshPoints(in) : a # b => Abs(a - b) > EpsMerge

\* The equilibrium of C1 on the valid inputs whose features are more than
\* 1e-4 m apart, where merging has nothing to merge.
EquilibriumWhenFeaturesApart ==
    (Returned /\ ValidInput(input) /\ FeaturesApart(input)) =>
        RAdd(SumFy(output.reactions, DOMAIN output.reactions),
             SumApplied(input.loads, Len(input.loads))) = RZero

\* C3: in the mesh analyze builds, any two distinct nodes are more than
\* 1e-4 m apart (feature coordinates within 1e-4 m are merged).
C3_NodesMerged ==
    Analyzed =>
        \A i, j \in 1..Len(mesh.nodes) :
            i < j => mesh.nodes[j].x - mesh.nodes[i].x > EpsMerge

\* C4: the mesh of generateMesh has nodes in strictly increasing x and
\* exactly N-1 elements, element i connecting node i to node i+1.
C4_MeshChain ==
    (pc = "done" /\ mesh # None) =>
        /\ \A i \in 1..(Len(mesh.nodes) - 1) : mesh.nodes[i].x < mesh.nodes[i + 1].x
        /\ Len(mesh.elements) = Len(mesh.nodes) - 1
        /\ \A i \in 1..Len(mesh.elements) :
               /\ mesh.elements[i].startNode = mesh.nodes[i]
               /\ mesh.elements[i].endNode = mesh.nodes[i + 1]

\* The ordering half of C4 alone.
MeshNodesStrictlyIncreasing ==
    (pc = "done" /\ mesh # None) =>
        \A i \in 1..(Len(mesh.nodes) - 1) : mesh.nodes[i].x < mesh.nodes[i + 1].x

SupportsCollide(in) ==
    \E j, k \in 1..Len(in.supports) :
        j # k /\ Abs(in.supports[j].x - in.supports[k].x) < EpsMerge

OutOfDomain(in) ==
    \/ \E k \in 1..Len(in.supports) : ~InDomain(in.supports[k].x, in)
    \/ \E k \in 1..Len(in.loads) : HasX(in.loads[k]) /\ ~InDomain(in.loads[k].x, in)

\* C5: when two distinct supports of the input lie within 1e-4 m of each
\* other, analyze fails instead of returning a result.
C5_ConflictingSupports ==
    (Analyzed /\ input.length > 0 /\ ~OutOfDomain(input) /\ SupportsCollide(input)) =>
        ~output.ok

\* C6: when a support or a point load of the input has x outside
\* [0, length], analyze aborts; it never returns a result.
C6_OutOfDomain ==
    (Analyzed /\ input.length > 0 /\ ~SupportsCollide(input) /\ OutOfDomain(input)) =>
        ~output.ok

\* C7: analyze called with length <= 0 aborts with an error for every choice
\* of supports and loads; it never returns a result.
C7_NonPositiveLength ==
    (Analyzed /\ input.length <= 0) => ~output.ok

\* C8: the reactions map has an entry for a node exactly when the node's
\* support is not Free, and the displacements map has an entry for every node.
C8_ResultShape ==
    Returned =>
        /\ DOMAIN output.reactions =
               {mesh.nodes[i].id : i \in {j \in 1..Len(mesh.nodes) :
                                             mesh.nodes[j].support # "Free"}}
        /\ DOMAIN output.displacements = NodeIds(mesh.nodes)

\* a result for a mesh with a Free node, a Pin or Roller node and a Fixed node
C8_Witness ==
    /\ Returned
    /\ \E i \in 1..Len(mesh.nodes) : mesh.nodes[i].support = "Free"
    /\ \E i \in 1..Len(mesh.nodes) : mesh.nodes[i].support \in {"Pin", "Roller"}
    /\ \E i \in 1..Len(mesh.nodes) : mesh.nodes[i].support = "Fixed"

\* C9: when analyze succeeds on an input with an empty load list, every
\* displacement (y, rotation) and every reaction (fy, m) is 0.
C9_NoLoadsAllZero ==
    (Returned /\ input.loads = <<>>) =>
        /\ \A id \in DOMAIN output.displacements :
               output.displacements[id] = [y |-> RZero, rotation |-> RZero]
        /\ \A id \in DOMAIN output.reactions :
               output.reactions[id] = [m |-> RZero, fy |-> RZero]

\* a result for an unloaded beam with free degrees of freedom and a reaction
C9_Witness ==
    /\ Returned
    /\ input.loads = <<>>
    /\ Len(mesh.elements) >= 1
    /\ DOMAIN output.reactions # {}
    /\ \E i \in 1..Len(mesh.nodes) : mesh.nodes[i].support # "Fixed"

(***************************************************************************)
(* Claims about the hook (under Spec) and about the diagrams (under        *)
(* SpecDiagram).                                                           *)
(***************************************************************************)
\* C2: a beam with no supports is rejected as unstable whatever its loads:
\* analyze throws, and after the hook's solve on a state with no supports
\* results is null and error is a non-empty message.
C2_NoSupportsUnstable ==
    (pc = "solved" /\ supports = <<>>) =>
        /\ ~output.ok
        /\ results = None
        /\ error # Null /\ error # ""

\* solve has run on a loaded beam without supports
C2_Witness ==
    /\ pc = "solved"
    /\ supports = <<>>
    /\ loads # <<>>
    /\ input.supports = <<>> /\ input.loads = loads
    /\ error = "Structure is unstable or creates a mechanism."

\* The first half of C2 on the inputs of SpecAnalyze.
AnalyzeWithoutSupportsThrows ==
    (Analyzed /\ input.supports = <<>>) => ~output.ok

\* the input with every load put in one category
SingleCategory(in) ==
    [in EXCEPT !.loads = [k \in 1..Len(in.loads) |->
                             [in.loads[k] EXCEPT !.category = "Dead"]]]

Requested(viewMode) == IF viewMode = "dead" THEN "Dead" ELSE "Live"

\* the loads of a list that have the category
OfCategory(loadList, category) ==
    Filter(loadList, LAMBDA l : CategoryOf(l) = category)

\* C10: with reactions and displacements held fixed, two load lists that
\* agree on the loads of the requested category give identical shear and
\* moment sequences; analyze applies the loads of every category, so its
\* result is that of the same loads put in one category.
C10_CategoryFilter ==
    /\ (pc = "drawn" /\ previous # None
          /\ OfCategory(request.loads, Requested(request.viewMode))
               = OfCategory(previous.request.loads, Requested(request.viewMode))) =>
           /\ diagrams.shearForce = previous.diagrams.shearForce
           /\ diagrams.bendingMoment = previous.diagrams.bendingMoment
    /\ (pc \in {"done", "drawn"}) => output = analyze(SingleCategory(input))

\* two calls whose load lists differ in a load of another category only,
\* with a load of the requested category in both and a non-zero diagram,
\* after an analysis that a Live load took part in
C10_Witness ==
    /\ pc = "drawn" /\ previous # None
    /\ request.loads # previous.request.loads
    /\ Len(request.loads) > Len(previous.request.loads)
    /\ OfCategory(request.loads, Requested(request.viewMode))
         = OfCategory(previous.request.loads, Requested(request.viewMode))
    /\ OfCategory(request.loads, Requested(request.viewMode)) # <<>>
    /\ \E i \in 1..Len(diagrams.shearForce) : diagrams.shearForce[i].value # RZero
    /\ \E i \in 1..Len(diagrams.bendingMoment) : diagrams.bendingMoment[i].value # RZero
    /\ \E k \in 1..Len(input.loads) : input.loads[k].category = "Live"
    /\ \E id \in DOMAIN output.reactions : output.reactions[id].fy # RZero

(***************************************************************************)
(* Claims about the shear of a simply supported beam with a mid-span point *)
(* force (under SpecShear).                                                *)
(***************************************************************************)
\* the diagrams of a simply supported beam with its one mid-span point force
MidSpanDrawn ==
    /\ pc = "drawn"
    /\ Len(input.supports) = 2 /\ Len(input.loads) = 1
    /\ input.supports[1] = [x |-> 0, type |-> "Pin"]
    /\ input.supports[2] = [x |-> input.length, type |-> "Roller"]
    /\ input.loads[1].type = "PointForce" /\ 2 * input.loads[1].x = input.length
    /\ request.loads = processedLoads(input.loads, 1)

\* the view asked for is the one of the load's category
LoadInView == CategoryOf(input.loads[1]) = Requested(request.viewMode)

\* the reaction fy of the node at x
ReactionFyAt(x) ==
    LET i == CHOOSE k \in 1..Len(mesh.nodes) : mesh.nodes[k].x = x
    IN  output.reactions[mesh.nodes[i].id].fy

\* P/2 for the downward load of magnitude P
HalfP == RDiv(RAbs(input.loads[1].magnitude), RInt(2))
Downward == input.loads[1].magnitude[1] < 0

FirstShear == diagrams.shearForce[1].value
LastShear == diagrams.shearForce[Len(diagrams.shearForce)].value

Shown ==
    /\ input.length > 2 * DiagramEps
    /\ LoadInView
    /\ ~RAbsLess(HalfP, SnapForceTol)

ShearSamplesBetween(a, b) ==
    {i \in 1..Len(diagrams.shearForce) :
        RLess(a, diagrams.shearForce[i].x) /\ RLess(diagrams.shearForce[i].x, b)}

DiagramSequences ==
    {diagrams.shearForce, diagrams.bendingMoment, diagrams.deformation}

\* C13: calculateDiagrams with resolution R >= 1 returns three sequences of
\* exactly R+1 samples each, the i-th sample of each at x = i*length/R, so
\* the first is at 0 and the last at length.
C13_Sampling ==
    (pc = "drawn" /\ request.resolution >= 1) =>
        \A seq \in DiagramSequences :
            /\ Len(seq) = request.resolution + 1
            /\ \A i \in 0..request.resolution :
                   seq[i + 1].x = Rat(i * request.length, request.resolution)
            /\ seq[1].x = RZero
            /\ seq[Len(seq)].x = RInt(request.length)

\* a call with resolution 5 on the 10 mm beam, whose step is 2 mm
C13_Witness ==
    /\ pc = "drawn"
    /\ request.resolution = 5 /\ request.length = 10000
    /\ Len(diagrams.deformation) = 6
    /\ diagrams.bendingMoment[2].x = RInt(2000)

(***************************************************************************)
(* Claims about concurrent calls of analyze (under SpecConcurrent).        *)
(***************************************************************************)
\* C14: analyze is a pure function with no shared state: of two calls on
\* independent inputs, executed in either order or interleaved, each
\* returns the result it returns when run alone, and a call leaves its
\* input unchanged.
C14_AnalyzePure ==
    /\ [](\A c \in Calls : pc[c] = "done" => output[c] = analyze(input[c]))
    /\ [][input' = input]_vars

\* both calls have returned, on different inputs and with different results,
\* one of them a result and the other either
C14_Witness ==
    /\ pc = <<"done", "done">>
    /\ input[1] # input[2]
    /\ output[1] # output[2]
    /\ output[1].ok
    /\ mesh[1] # mesh[2]

(***************************************************************************)
(* Claims about the hook (under SpecEndToEnd and Spec).                    *)
(***************************************************************************)
\* the state holds a Pin at 0, a Roller at length and a point force at an
\* interior position
StandardBeam ==
    /\ \E k \in 1..Len(supports) : supports[k].x = 0 /\ supports[k].type = "Pin"
    /\ \E k \in 1..Len(supports) : supports[k].x = length /\ supports[k].type = "Roller"
    /\ \E k \in 1..Len(loads) :
           /\ loads[k].type = "PointForce" /\ HasX(loads[k])
           /\ 0 < loads[k].x /\ loads[k].x < length

\* C15: once a Pin at 0, a Roller at length and a point force at an interior
\* position have been added, solve leaves error null and results non-null,
\* and results.displacements has one entry per mesh node, at least three.
C15_StandardBeamSolves ==
    (pc = "solved" /\ StandardBeam) =>
        /\ error = Null
        /\ results # None
        /\ DOMAIN results.displacements = NodeIds(mesh.nodes)
        /\ Cardinality(DOMAIN results.displacements) >= 3

\* The same for a point force more than 1e-3 m from both ends.
StandardBeamSolvesAwayFromEnds ==
    (pc = "solved" /\ StandardBeam
       /\ \A k \in 1..Len(loads) :
              loads[k].x > EpsNode /\ loads[k].x < length - EpsNode) =>
        /\ error = Null
        /\ results # None
        /\ DOMAIN results.displacements = NodeIds(mesh.nodes)
        /\ Cardinality(DOMAIN results.displacements) >= 3

\* the list without its k-th element
Without(list, k) == SubSeq(list, 1, k - 1) \o SubSeq(list, k + 1, Len(list))

\* what a step that is addSupport(x, type) leaves: a support of that type at
\* x, last in the list, under an id no other support of the list has
AddSupportEffect(x, type) ==
    /\ supports' # <<>>
    /\ supports'[Len(supports')].x = x
    /\ supports'[Len(supports')].type = type
    /\ \A j \in 1..(Len(supports') - 1) :
           supports'[j].id # supports'[Len(supports')].id

\* what a step that is removeSupport of the k-th support's id leaves
RemoveSupportEffect(k) ==
    /\ supports' = Without(supports, k)
    /\ \A j \in 1..Len(supports') : supports'[j].id # supports[k].id
    /\ loads' = loads
    /\ length' = length

AddLoadEffect(category) ==
    /\ Len(loads') = Len(loads) + 1
    /\ SubSeq(loads', 1, Len(loads)) = loads
    /\ loads'[Len(loads')].category = category

\* what a step that is updateLoadCategory of the k-th load's id leaves
UpdateLoadCategoryEffect(k, category) ==
    /\ Len(loads') = Len(loads)
    /\ \A j \in 1..Len(loads) :
           IF j = k
           THEN /\ loads'[j].category = category
                /\ [loads'[j] EXCEPT !.category = loads[j].category] = loads[j]
           ELSE loads'[j] = loads[j]

\* C17: addLoad without a category appends a load of category Live, addLoad
\* with a category appends a load of that category at the end of the list,
\* and updateLoadCategory(id, c) changes the category of the load with that
\* id only, leaving its other fields, every other load and the order.
C17_LoadCategories ==
    [][/\ \A args \in EditLoadArgs, direction \in {"up", Undefined} :
              /\ addLoadUpTo(MaxEditLoads, args, direction, Undefined) =>
                     AddLoadEffect("Live")
              /\ \A category \in LoadCategories :
                     addLoadUpTo(MaxEditLoads, args, direction, category) =>
                         AddLoadEffect(category)
       /\ \A k \in 1..Len(loads), category \in LoadCategories :
              updateLoadCategory(loads[k].id, category) =>
                  UpdateLoadCategoryEffect(k, category)]_vars

\* two loads, the first added without a category and still Live, the second
\* changed from its category to another
C17_Witness ==
    /\ pc = "idle"
    /\ Len(loads) = 2
    /\ loads[1].category = "Live" /\ loads[1].id = 1
    /\ loads[2].category = "Dead" /\ loads[2].id = 2
    /\ loads[1].type = "DistributedForce" /\ loads[2].type = "PointForce"

(***************************************************************************)
(* Beams of four equal panels of 1 mm or 1.001 mm, with supports and one   *)
(* point load at panel points, analysed and drawn at the panel points      *)
(* (resolution 4) or at every other one (resolution 2).  With panels of    *)
(* 1 mm the panel point before the end is at length - eps and a panel      *)
(* point is at most eps beyond the section before it; with panels of       *)
(* 1.001 mm neither is the case.                                           *)
(***************************************************************************)
PanelWidths == {1000, 1001}
PanelResolutions == {2, 4}

PanelSupports(u) ==
    {<<[x |-> 0, type |-> "Pin"], [x |-> 4 * u, type |-> "Roller"]>>,
     <<[x |-> 0, type |-> "Pin"], [x |-> 3 * u, type |-> "Roller"]>>,
     <<[x |-> 0, type |-> "Fixed"]>>,
     <<[x |-> 4 * u, type |-> "Fixed"]>>}

PanelLoads(u) ==
    {<<[id |-> 1, x |-> k * u, category |-> "Dead", type |-> "PointForce",
        magnitude |-> RInt(-12)]>> : k \in 1..4}
    \cup {<<[id |-> 1, x |-> k * u, category |-> "Dead", type |-> "PointMoment",
             magnitude |-> RInt(6 * u)]>> : k \in 1..4}

InitPanels ==
    /\ HookInit
    /\ \E u \in PanelWidths : \E s \in PanelSupports(u), l \in PanelLoads(u) :
           input = [E |-> 1, I |-> 1, length |-> 4 * u, supports |-> s, loads |-> l]
    /\ mesh = None /\ domainLoads = None /\ output = None
    /\ NoDiagram
    /\ pc = "ready"

NextPanels ==
    \/ Analyze
    \/ \E resolution \in PanelResolutions, viewMode \in ViewModes :
           CalculateDiagrams(resolution, viewMode, processedLoads(input.loads, 1))

SpecPanels == InitPanels /\ [][NextPanels]_vars

(***************************************************************************)
(* Claims about the load vector F of FemSolver.solve (under SpecAnalyze).  *)
(* F is the one solve assembles from the mesh and the domain loads of the  *)
(* call; its rotational entries are moments divided by the mesh unit.      *)
(***************************************************************************)
LoadVector == SolveSystem(mesh.nodes, mesh.elements, domainLoads).F

\* analyze has run on a beam of positive length with one load, and no two
\* feature coordinates of the input are within 1e-4 m of each other
OneLoadAnalyzed ==
    /\ Analyzed
    /\ input.length > 0
    /\ Len(input.loads) = 1
    /\ FeaturesApart(input)
    /\ mesh.elements # <<>>

\* the nodes within 1e-4 m of x
NodesWithinMerge(x) == {i \in 1..Len(mesh.nodes) : Abs(mesh.nodes[i].x - x) < EpsMerge}

\* the entries of F that are not 0
NonZeroEntries(F) == {d \in 1..Len(F) : F[d] # RZero}

\* C18: for a PointForce (PointMoment) at x in [0, length], solve adds its
\* magnitude to exactly one entry of F: the vertical (rotational) DOF of the
\* unique mesh node within 1e-4 m of x, never to a node farther away.
C18_PointLoadToItsNode ==
    (OneLoadAnalyzed /\ HasX(input.loads[1]) /\ InDomain(input.loads[1].x, input)) =>
        LET load == input.loads[1]
            F == LoadVector
            g == MeshUnit(mesh.elements)
        IN  /\ Cardinality(NodesWithinMerge(load.x)) = 1
            /\ \A i \in NodesWithinMerge(load.x) :
                   IF load.type = "PointForce"
                   THEN /\ NonZeroEntries(F) = {VDof(i)}
                        /\ F[VDof(i)] = load.magnitude
                   ELSE /\ NonZeroEntries(F) = {RDof(i)}
                        /\ F[RDof(i)] = RDiv(load.magnitude, RInt(g))

\* the index of the node at x
NodeAt(x) == CHOOSE i \in 1..Len(mesh.nodes) : mesh.nodes[i].x = x

\* what the elements up to the k-th inside [a, b] add to F for the intensity
\* w: w*Le/2 on the vertical DOF of both end nodes of the element,
\* +w*Le^2/12 on the rotation DOF of its start node and -w*Le^2/12 on that
\* of its end node
RECURSIVE FixedEndActions(_, _, _, _)
FixedEndActions(w, a, b, k) ==
    IF k = 0 THEN ZeroVector(2 * Len(mesh.nodes))
    ELSE LET el == mesh.elements[k]
             before == FixedEndActions(w, a, b, k - 1)
             g == MeshUnit(mesh.elements)
             Le == RInt(el.endNode.x - el.startNode.x)
             V == RDiv(RMul(w, Le), RInt(2))
             M == RDiv(RDiv(RMul(RMul(w, Le), Le), RInt(12)), RInt(g))
             i == NodeAt(el.startNode.x)
             j == NodeAt(el.endNode.x)
         IN  IF el.startNode.x >= a /\ el.endNode.x <= b
             THEN AddTo(AddTo(AddTo(AddTo(before, VDof(i), V), RDof(i), M),
                              VDof(j), V), RDof(j), RNeg(M))
             ELSE before

RECURSIVE SumVertical(_, _)
SumVertical(F, i) ==
    IF i = 0 THEN RZero ELSE RAdd(SumVertical(F, i - 1), F[VDof(i)])

\* C19: a DistributedForce of intensity w over [a, b] inside the beam adds,
\* for each mesh element inside [a, b], the fixed-end actions to the DOFs of
\* that element's own end nodes; elements outside [a, b] receive nothing,
\* and the total vertical force added to F is w*(b - a).
C19_DistributedToItsElements ==
    (OneLoadAnalyzed /\ HasSpan(input.loads[1])
       /\ 0 <= input.loads[1].startX /\ input.loads[1].startX < input.loads[1].endX
       /\ input.loads[1].endX <= input.length) =>
        LET load == input.loads[1]
        IN  /\ LoadVector = FixedEndActions(load.magnitude, load.startX, load.endX,
                                            Len(mesh.elements))
            /\ SumVertical(LoadVector, Len(mesh.nodes))
                 = RMul(load.magnitude, RInt(load.endX - load.startX))

\* C18 and C19 on the inputs whose features are more than 1e-3 m apart.
PointLoadToItsNodeFarApart ==
    (\A a, b \in MeshPoints(input) : a # b => Abs(a - b) > EpsNode) =>
        C18_PointLoadToItsNode
DistributedToItsElementsFarApart ==
    (\A a, b \in MeshPoints(input) : a # b => Abs(a - b) > EpsNode) =>
        C19_DistributedToItsElements

(***************************************************************************)
(* The right-edge rule of calculateDiagrams (under SpecPanels).             *)
(***************************************************************************)
\* the point forces and point moments of the request: reactions, then the
\* loads of the view
RequestPointForces ==
    ReactionForces(SortedNodes(request.nodes), request.reactions, 1)
        \o LoadEntries(filteredLoads(request.loads, request.viewMode, 1), "PointForce", 1)
RequestPointMoments ==
    ReactionMoments(SortedNodes(request.nodes), request.reactions, 1)
        \o LoadEntries(filteredLoads(request.loads, request.viewMode, 1), "PointMoment", 1)
RequestDistLoads ==
    LoadEntries(filteredLoads(request.loads, request.viewMode, 1), "DistributedForce", 1)

AtRightEdge(f) == f.x >= request.length - DiagramEps
LeftOfSection(f, x) == RLess(RInt(f.x), x) \/ RInt(f.x) = x
                           \/ RLess(RSub(RInt(f.x), x), RInt(DiagramEps))
                           \/ RSub(RInt(f.x), x) = RInt(DiagramEps)

\* the sum of term(f) over the first k entries that are left of the section
\* at x (within eps) and not at the right edge
RECURSIVE SumOfIncluded(_, _, _, _)
SumOfIncluded(entries, x, lever, k) ==
    IF k = 0 THEN RZero
    ELSE RAdd(SumOfIncluded(entries, x, lever, k - 1),
              IF LeftOfSection(entries[k], x) /\ ~AtRightEdge(entries[k])
              THEN (IF lever THEN RMul(entries[k].mag, RSub(x, RInt(entries[k].x)))
                    ELSE entries[k].mag)
              ELSE RZero)

RECURSIVE OwnReactionForces(_, _, _)
OwnReactionForces(sortedNodes, reactions, i) ==
    IF i > Len(sortedNodes) THEN <<>>
    ELSE (IF /\ sortedNodes[i].id \in DOMAIN reactions
             /\ RAbsGreater(reactions[sortedNodes[i].id].fy, ReactionForceTol)
          THEN <<[x |-> sortedNodes[i].x, type |-> "reaction",
                  mag |-> reactions[sortedNodes[i].id].fy]>>
          ELSE <<>>) \o OwnReactionForces(sortedNodes, reactions, i + 1)

\* the same for the point moments, of magnitude -m
RECURSIVE OwnReactionMoments(_, _, _)
OwnReactionMoments(sortedNodes, reactions, i) ==
    IF i > Len(sortedNodes) THEN <<>>
    ELSE (IF /\ sortedNodes[i].id \in DOMAIN reactions
             /\ RAbsGreater(reactions[sortedNodes[i].id].m, ReactionMomentTol)
          THEN <<[x |-> sortedNodes[i].x, type |-> "reaction",
                  mag |-> RNeg(reactions[sortedNodes[i].id].m)]>>
          ELSE <<>>) \o OwnReactionMoments(sortedNodes, reactions, i + 1)

\* C21: the point contributions calculateDiagrams derives from the reactions
\* are, for each node that has a reaction, at most one point force fy and at
\* most one point moment -m at that node's x; no reaction is counted twice
\* and no node without a reaction of its own contributes one.
C21_ReactionsOncePerNode ==
    (pc = "drawn") =>
        LET sortedNodes == SortedNodes(request.nodes)
        IN  /\ ReactionForces(sortedNodes, request.reactions, 1)
                 = OwnReactionForces(sortedNodes, request.reactions, 1)
            /\ ReactionMoments(sortedNodes, request.reactions, 1)
                 = OwnReactionMoments(sortedNodes, request.reactions, 1)

\* C21 on the beams whose nodes are at least 1.5 mm apart
ReactionsOncePerNodeFarApart ==
    (\A a, b \in MeshPoints(input) : a # b => Abs(a - b) >= 1500) =>
        C21_ReactionsOncePerNode

(***************************************************************************)
(* Claims about the boundary conditions of FemSolver.solve (under          *)
(* SpecAnalyze).                                                           *)
(***************************************************************************)
\* C22: in every result solve returns, y is exactly 0 at every node whose
\* support is Roller, Pin or Fixed and the rotation is exactly 0 at every
\* Fixed node, for any loads.
C22_RestrainedDofsZero ==
    Returned =>
        \A i \in 1..Len(mesh.nodes) :
            LET node == mesh.nodes[i]
            IN  /\ node.support \in {"Roller", "Pin", "Fixed"}
                     => output.displacements[node.id].y = RZero
                /\ node.support = "Fixed"
                     => output.displacements[node.id].rotation = RZero

\* a returned result of a loaded beam with a Fixed node and a Pin or Roller
\* node, on which some node deflects and some node rotates
C22_Witness ==
    /\ Returned
    /\ input.loads # <<>>
    /\ \E i \in 1..Len(mesh.nodes) : mesh.nodes[i].support = "Fixed"
    /\ \E i \in 1..Len(mesh.nodes) : mesh.nodes[i].support \in {"Roller", "Pin"}
    /\ \E i \in 1..Len(mesh.nodes) : output.displacements[mesh.nodes[i].id].y # RZero
    /\ \E i \in 1..Len(mesh.nodes) :
           output.displacements[mesh.nodes[i].id].rotation # RZero

AllNodesFixed ==
    /\ mesh.nodes # <<>>
    /\ \A i \in 1..Len(mesh.nodes) : mesh.nodes[i].support = "Fixed"

\* C23: when every mesh node is Fixed, solve skips the linear solve and the
\* singularity check and returns without error: all displacements are 0 and
\* each reaction is the negative of the node's entries of F (the moment
\* entry of F is kept in mesh units, the reaction moment in N*um).
C23_AllFixed ==
    (Analyzed /\ AllNodesFixed) =>
        /\ output.ok
        /\ \A i \in 1..Len(mesh.nodes) :
               LET id == mesh.nodes[i].id
                   g == MeshUnit(mesh.elements)
               IN  /\ output.displacements[id] = [y |-> RZero, rotation |-> RZero]
                   /\ id \in DOMAIN output.reactions
                   /\ output.reactions[id].fy = RNeg(LoadVector[VDof(i)])
                   /\ output.reactions[id].m = RNeg(RMul(LoadVector[RDof(i)], RInt(g)))

\* a beam fixed at both ends under a load spread over it: both reactions
\* have a force and a moment
C23_Witness ==
    /\ Analyzed /\ AllNodesFixed
    /\ Len(mesh.nodes) >= 2
    /\ output.ok
    /\ \A i \in 1..Len(mesh.nodes) :
           /\ output.reactions[mesh.nodes[i].id].fy # RZero
           /\ output.reactions[mesh.nodes[i].id].m # RZero

\* length > 0, E > 0, I > 0 and every support and load inside [0, length]
InsideBeam(in) ==
    /\ in.length > 0 /\ in.E > 0 /\ in.I > 0
    /\ \A k \in 1..Len(in.supports) : InDomain(in.supports[k].x, in)
    /\ \A k \in 1..Len(in.loads) :
           IF HasX(in.loads[k]) THEN InDomain(in.loads[k].x, in)
           ELSE InDomain(in.loads[k].startX, in) /\ InDomain(in.loads[k].endX, in)

HasFixedSupport(in) == \E k \in 1..Len(in.supports) : in.supports[k].type = "Fixed"
SupportPositions(in) == {in.supports[k].x : k \in 1..Len(in.supports)}

\* the supports leave a rigid-body motion possible
RigidBodyMotion(in) == ~HasFixedSupport(in) /\ Cardinality(SupportPositions(in)) < 2

\* C24: for an input with length > 0, E > 0, I > 0 and all supports and
\* loads inside [0, length], analyze fails as unstable exactly when there is
\* no Fixed support and fewer than two supports; with a Fixed support or two
\* supports at distinct positions it returns a result.
C24_UnstableIffMechanism ==
    (Analyzed /\ InsideBeam(input)) =>
        IF RigidBodyMotion(input)
        THEN Threw /\ output.error = "Structure is unstable or creates a mechanism."
        ELSE Returned

\* C24 on the inputs whose features are more than 1e-4 m apart and whose
\* supports are at different positions
UnstableIffMechanismFeaturesApart ==
    (FeaturesApart(input) /\ ~SupportsCollide(input)) => C24_UnstableIffMechanism

(***************************************************************************)
(* Claims about results and error of the hook (under Spec).                *)
(***************************************************************************)
\* C25: whenever results is non-null it is the result of analyze on the
\* current length, material, supports and loads: every operation that
\* changes one of these resets results to null until the next successful
\* solve.
C25_ResultsCurrent ==
    (results # None) =>
        LET current == analyze(HookInput)
        IN  /\ current.ok
            /\ results = [displacements |-> current.displacements,
                          reactions |-> current.reactions]

\* C26: results and error are never both non-null: a successful solve sets
\* results and clears error, a failed solve sets error and clears results,
\* and no editing operation sets either of them to a non-null value.
C26_ResultsOrError ==
    /\ [](results = None \/ error = Null)
    /\ [][IF pc' = "solved"
          THEN IF output'.ok THEN results' # None /\ error' = Null
               ELSE results' = None /\ error' # Null
          ELSE results' \in {None, results} /\ error' \in {Null, error}]_vars

\* a solve has failed, and the error stays while the beam is edited
C26_Witness ==
    /\ pc = "idle"
    /\ error # Null
    /\ results = None
    /\ supports # <<>>

(***************************************************************************)
(* Claims about the editing callbacks of the hook (under Spec).            *)
(***************************************************************************)
Within(l, L) ==
    IF HasX(l) THEN 0 <= l.x /\ l.x <= L
    ELSE 0 <= l.startX /\ l.startX <= L /\ 0 <= l.endX /\ l.endX <= L

\* C27: after setLength(L) with L > 0, length is L and every remaining
\* support and every remaining load (point loads by x, distributed loads by
\* startX and endX) lies within [0, L]; setLength with L <= 0 leaves length,
\* supports, loads and results unchanged.
C27_SetLengthKeepsInside ==
    [][\A L \in HookLengths :
           updateLength(L) =>
               IF L > 0
               THEN /\ length' = L
                    /\ \A k \in 1..Len(supports') :
                           0 <= supports'[k].x /\ supports'[k].x <= L
                    /\ \A k \in 1..Len(loads') : Within(loads'[k], L)
               ELSE UNCHANGED <<length, supports, loads, results>>]_vars

\* C27 for the supports and the point loads only
SetLengthKeepsPointsInside ==
    [][\A L \in HookLengths :
           updateLength(L) =>
               IF L > 0
               THEN /\ length' = L
                    /\ \A k \in 1..Len(supports') :
                           0 <= supports'[k].x /\ supports'[k].x <= L
                    /\ \A k \in 1..Len(loads') :
                           HasX(loads'[k]) => Within(loads'[k], L)
               ELSE UNCHANGED <<length, supports, loads, results>>]_vars

\* C28: in every reachable hook state no two supports are within 1e-3 m of
\* each other (addSupport first removes every support within 1e-3 m of x),
\* so no two supports of the hook resolve to the same mesh node.
C28_SupportsApart ==
    /\ \A j, k \in 1..Len(supports) :
           j # k => Abs(supports[j].x - supports[k].x) > EpsNode
    /\ \A p \in MeshPoints(HookInput) :
           Cardinality({k \in 1..Len(supports) : Abs(supports[k].x - p) < EpsMerge}) <= 1

\* two supports, one of them 0.5 mm from the end of the beam, where a
\* support was or could be added
C28_Witness ==
    /\ Len(supports) = 2
    /\ \E k \in 1..Len(supports) : supports[k].x = 500
    /\ \E k \in 1..Len(supports) : supports[k].id = 2

C30_SignedMagnitude ==
    [][\A args \in EditLoadArgs, direction \in {"up", "down", Undefined},
          category \in LoadCategories \cup {Undefined} :
           addLoadUpTo(MaxEditLoads, args, direction, category) =>
               LET stored == loads'[Len(loads')].magnitude
               IN  /\ stored \in {args.magnitude, RNeg(args.magnitude)}
                   /\ IF direction = "up" THEN stored[1] >= 0 ELSE stored[1] <= 0]_vars

\* a list with an upward and a downward load
C30_Witness ==
    /\ Len(loads) = 2
    /\ loads[1].magnitude[1] > 0
    /\ loads[2].magnitude[1] < 0

====
